---- MODULE Spec2Model ----
(***************************************************************************)
(* A model of src/main.py: the meal-nutrition pipeline                     *)
(*   parse_food_amount -> query_usda -> extract_nutrients ->               *)
(*   calculate_meal_totals -> generate_analysis, sequenced by              *)
(*   nutrition_agent.                                                      *)
(*                                                                         *)
(* Text is modelled at the level of lexical tokens: a string is a sequence *)
(* of tokens (a fence, a language tag, a JSON punctuation mark, a JSON     *)
(* scalar or object literal, a whitespace run, a word of a nutrient name). *)
(* Python values are tagged records; a dict is a function whose DOMAIN is  *)
(* its key set.                                                            *)
(***************************************************************************)
EXTENDS Integers, Sequences, FiniteSets, TLC

VARIABLES
    pc,            \* position of the function under execution
    response,      \* what llm.invoke gives parse_food_amount (main.py:43)
    content,       \* the local content handed to json.loads (main.py:47-53)
    parsed_foods,  \* return value of parse_food_amount (main.py:192)
    i,             \* position of the for loop of nutrition_agent (main.py:200)
    meal_info,     \* main.py:199
    meal_totals,   \* main.py:225
    calls,         \* the external calls made so far, in order
    result,        \* what nutrition_agent returned
    data,          \* the decoded body / outcome of requests.get (main.py:73-80)
    usda_data,     \* return value of query_usda (main.py:207)
    nutrients,     \* return value of extract_nutrients (main.py:212)
    perm_info,     \* a permutation of meal_info
    perm_totals    \* calculate_meal_totals(perm_info)

vars == <<pc, response, content, parsed_foods, i, meal_info, meal_totals, calls,
          result, data, usda_data, nutrients, perm_info, perm_totals>>

----------------------------------------------------------------------------
(* Bounds of the model *)

MaxContent == 5     \* tokens in a text-generation response (parser specification)
MaxItems == 3       \* elements of the parsed array (agent specification)
MaxFoods == 3       \* candidates in a search response
MaxEntries == 2     \* entries of a foodNutrients list
MaxMeal == 3        \* items handed to calculate_meal_totals

None == [k |-> "none"]          \* a variable not in use / Python None

----------------------------------------------------------------------------
(* Python values *)

Arr(s) == [k |-> "arr", items |-> s]
Obj(f) == [k |-> "obj", fields |-> f]
Num(n) == [k |-> "num", n |-> n]
EmptyDict == <<>>               \* {}: the function with the empty domain

\* Python truthiness of a decoded JSON value: (not v).
Falsy(v) ==
    \/ v.k = "none"
    \/ v.k = "arr" /\ v.items = <<>>
    \/ v.k = "obj" /\ DOMAIN v.fields = {}
    \/ v.k = "num" /\ v.n = 0

\* dict.get(key, default)
Get(d, key, default) == IF key \in DOMAIN d THEN d[key] ELSE default

----------------------------------------------------------------------------
(* Token strings *)

FENCE == "<fence>"              \* the three-backquote fence of markdown
WS == "<ws>"                    \* a run of whitespace

\* (sub in s) for token strings: sub occurs as a contiguous run of s.
Occurs(sub, s, p) ==
    /\ p + Len(sub) - 1 <= Len(s)
    /\ SubSeq(s, p, p + Len(sub) - 1) = sub

In(sub, s) == \E p \in 1..Len(s) : Occurs(sub, s, p)

\* str.split(sep): the pieces between the non-overlapping occurrences of sep,
\* scanned left to right.
RECURSIVE Split(_, _)
Split(s, sep) ==
    IF ~In(sep, s) THEN <<s>>
    ELSE LET p == CHOOSE q \in 1..Len(s) :
                     /\ Occurs(sep, s, q)
                     /\ \A r \in 1..(q - 1) : ~Occurs(sep, s, r)
         IN <<SubSeq(s, 1, p - 1)>> \o Split(SubSeq(s, p + Len(sep), Len(s)), sep)

\* str.strip(): leading and trailing whitespace removed.
RECURSIVE Strip(_)
Strip(s) ==
    IF s = <<>> THEN s
    ELSE IF Head(s) = WS THEN Strip(Tail(s))
    ELSE IF s[Len(s)] = WS THEN Strip(SubSeq(s, 1, Len(s) - 1))
    ELSE s

----------------------------------------------------------------------------
(* json.loads on token strings *)

JSONDecodeError == [k |-> "JSONDecodeError"]

egg == [food |-> "egg", amount |-> "2 large"]
rice == [food |-> "rice"]
noname == [amount |-> "1 cup"]
blank == [food |-> "", amount |-> "1"]

\* The literals of the model and the value each one decodes to.
Literal ==
    [lit \in {"7", "0", "{egg}", "{rice}", "{noname}", "{blank}"} |->
        CASE lit = "7" -> Num(7)
          [] lit = "0" -> Num(0)
          [] lit = "{egg}" -> Obj(egg)
          [] lit = "{rice}" -> Obj(rice)
          [] lit = "{noname}" -> Obj(noname)
          [] lit = "{blank}" -> Obj(blank)]

NoWs(s) == SelectSeq(s, LAMBDA t : t # WS)

Fail == [ok |-> FALSE]

RECURSIVE ParseValue(_, _)
RECURSIVE ParseElems(_, _, _, _)

\* A JSON value starting at token p: a literal, or an array of values.
ParseValue(t, p) ==
    IF p > Len(t) THEN Fail
    ELSE IF t[p] \in DOMAIN Literal
         THEN [ok |-> TRUE, val |-> Literal[t[p]], next |-> p + 1]
    ELSE IF t[p] = "[" THEN ParseElems(t, p + 1, <<>>, TRUE)
    ELSE Fail

ParseElems(t, p, acc, first) ==
    IF p > Len(t) THEN Fail
    ELSE IF first /\ t[p] = "]"
         THEN [ok |-> TRUE, val |-> Arr(acc), next |-> p + 1]
    ELSE LET r == ParseValue(t, p) IN
         IF ~r.ok THEN Fail
         ELSE IF r.next > Len(t) THEN Fail
         ELSE IF t[r.next] = ","
              THEN ParseElems(t, r.next + 1, Append(acc, r.val), FALSE)
         ELSE IF t[r.next] = "]"
              THEN [ok |-> TRUE, val |-> Arr(Append(acc, r.val)), next |-> r.next + 1]
         ELSE Fail

\* json.loads: the whole text must be one value; anything else is a
\* JSONDecodeError.
json_loads(text) ==
    LET t == NoWs(text)
        r == ParseValue(t, 1)
    IN IF r.ok /\ r.next = Len(t) + 1 THEN r.val ELSE JSONDecodeError

----------------------------------------------------------------------------
(* parse_food_amount, main.py:25-59 *)

Raises == [k |-> "raises"]          \* llm.invoke raised
Reply(text) == [k |-> "reply", content |-> text]

\* pieces[n] with the 0-based n of Python: the piece, or an IndexError.
Piece(pieces, n) ==
    IF n + 1 <= Len(pieces) THEN [ok |-> TRUE, text |-> pieces[n + 1]]
    ELSE [ok |-> FALSE]

\* content.split(sep)[1].split(FENCE)[0].strip(), main.py:49 and main.py:51
Fenced(text, sep) ==
    LET after == Piece(Split(text, sep), 1) IN
    IF ~after.ok THEN after
    ELSE LET block == Piece(Split(after.text, <<FENCE>>), 0) IN
         IF ~block.ok THEN block
         ELSE [ok |-> TRUE, text |-> Strip(block.text)]

\* A slip: only the untagged branch, so a json tag stays in the text.
ExtractContent_untagged_only(text) ==
    IF In(<<FENCE>>, text) THEN Fenced(text, <<FENCE>>)
    ELSE [ok |-> TRUE, text |-> text]

\* main.py:47-51: the text handed to json.loads, or an IndexError.
ExtractContent(text) ==
    IF In(<<FENCE, "json">>, text) THEN Fenced(text, <<FENCE, "json">>)
    ELSE IF In(<<FENCE>>, text) THEN Fenced(text, <<FENCE>>)
    ELSE [ok |-> TRUE, text |-> text]

\* A slip: the decode error is handed to the caller instead of [].
parse_food_amount_propagates(resp) ==
    IF resp = Raises THEN Arr(<<>>)
    ELSE LET c == ExtractContent(resp.content) IN
         IF ~c.ok THEN Arr(<<>>) ELSE json_loads(c.text)

\* main.py:42-59: every exception ends in return [].
parse_food_amount(resp) ==
    IF resp = Raises THEN Arr(<<>>)
    ELSE LET c == ExtractContent(resp.content) IN
         IF ~c.ok THEN Arr(<<>>)
         ELSE LET v == json_loads(c.text) IN
              IF v = JSONDecodeError THEN Arr(<<>>) ELSE v

----------------------------------------------------------------------------
(* query_usda, main.py:61-94 *)

\* The outcomes of requests.get + raise_for_status + resp.json(), main.py:73-80
Timeout == [k |-> "RequestException"]       \* network failure or timeout
HttpError == [k |-> "HTTPError"]            \* a non-2xx response
Body(json) == [k |-> "body", json |-> json] \* the decoded body, a dict

\* key=lambda x: x.get("score", 0), main.py:87
ScoreOf(x) == Get(x, "score", 0)

\* A slip: a later candidate with an equal score replaces the best so far.
RECURSIVE PyMax_last(_, _, _)
PyMax_last(seq, best, n) ==
    IF n > Len(seq) THEN best
    ELSE IF ScoreOf(seq[n]) >= ScoreOf(best) THEN PyMax_last(seq, seq[n], n + 1)
    ELSE PyMax_last(seq, best, n + 1)

\* max(seq, key=...): one pass, a later element replaces the best so far only
\* when its key is strictly greater.
RECURSIVE PyMax(_, _, _)
PyMax(seq, best, n) ==
    IF n > Len(seq) THEN best
    ELSE IF ScoreOf(seq[n]) > ScoreOf(best) THEN PyMax(seq, seq[n], n + 1)
    ELSE PyMax(seq, best, n + 1)

\* A slip: max without the scan restarting from the first candidate.
best_match_last(foods) == PyMax_last(foods, foods[1], 2)

\* main.py:87
best_match(foods) == PyMax(foods, foods[1], 2)

\* main.py:72-94: every failure ends in return {}.
query_usda(outcome) ==
    IF outcome.k # "body" THEN EmptyDict
    ELSE IF Get(outcome.json, "foods", <<>>) = <<>> THEN EmptyDict
    ELSE best_match(outcome.json.foods)

----------------------------------------------------------------------------
(* extract_nutrients, main.py:96-122 *)

Keys == {"calories", "protein", "fat", "carbohydrates", "fiber", "sugars",
         "saturated_fat", "sodium"}

\* str.lower() on the tokens of the nutrient names and units of the model.
LowerMap ==
    [w \in {"Energy", "Protein", "Total", "Carbohydrate", "Fiber", "Sugars",
            "Fatty", "Sodium", "Vitamin", "C", "Na", "NLEA", "KCAL", "kJ", "G",
            "MG"} |->
        CASE w = "Energy" -> "energy"
          [] w = "Protein" -> "protein"
          [] w = "Total" -> "total"
          [] w = "Carbohydrate" -> "carbohydrate"
          [] w = "Fiber" -> "fiber"
          [] w = "Sugars" -> "sugars"
          [] w = "Fatty" -> "fatty"
          [] w = "Sodium" -> "sodium"
          [] w = "Vitamin" -> "vitamin"
          [] w = "C" -> "c"
          [] w = "Na" -> "na"
          [] w = "NLEA" -> "nlea"
          [] w = "KCAL" -> "kcal"
          [] w = "kJ" -> "kj"
          [] w = "G" -> "g"
          [] w = "MG" -> "mg"]

lower(s) == [n \in 1..Len(s) |-> IF s[n] \in DOMAIN LowerMap THEN LowerMap[s[n]] ELSE s[n]]

SP == " "

\* The condition of each branch of main.py:105-119, on the lowered name and unit.
Matches(key, name, unit) ==
    CASE key = "calories" -> In(<<"energy">>, name) /\ In(<<"kcal">>, unit)
      [] key = "protein" -> In(<<"protein">>, name)
      [] key = "fat" -> In(<<"total", SP, "lipid">>, name) \/ In(<<"total", SP, "fat">>, name)
      [] key = "carbohydrates" ->
             In(<<"carbohydrate">>, name) /\ In(<<"by", SP, "difference">>, name)
      [] key = "fiber" -> In(<<"fiber">>, name) /\ In(<<"total", SP, "dietary">>, name)
      [] key = "sugars" -> In(<<"sugars">>, name) /\ In(<<"total">>, name)
      [] key = "saturated_fat" ->
             In(<<"fatty", SP, "acids">>, name) /\ In(<<"saturated">>, name)
      [] key = "sodium" -> In(<<"sodium">>, name)

NoKey == "(none)"

\* A slip: the sodium branch tested first.
Branch_sodium_first(name, unit) ==
    IF Matches("sodium", name, unit) THEN "sodium"
    ELSE IF Matches("calories", name, unit) THEN "calories"
    ELSE IF Matches("protein", name, unit) THEN "protein"
    ELSE IF Matches("fat", name, unit) THEN "fat"
    ELSE IF Matches("carbohydrates", name, unit) THEN "carbohydrates"
    ELSE IF Matches("fiber", name, unit) THEN "fiber"
    ELSE IF Matches("sugars", name, unit) THEN "sugars"
    ELSE IF Matches("saturated_fat", name, unit) THEN "saturated_fat"
    ELSE NoKey

\* The if/elif chain of main.py:105-120: the key the entry is stored under.
Branch(name, unit) ==
    IF Matches("calories", name, unit) THEN "calories"
    ELSE IF Matches("protein", name, unit) THEN "protein"
    ELSE IF Matches("fat", name, unit) THEN "fat"
    ELSE IF Matches("carbohydrates", name, unit) THEN "carbohydrates"
    ELSE IF Matches("fiber", name, unit) THEN "fiber"
    ELSE IF Matches("sugars", name, unit) THEN "sugars"
    ELSE IF Matches("saturated_fat", name, unit) THEN "saturated_fat"
    ELSE IF Matches("sodium", name, unit) THEN "sodium"
    ELSE NoKey

NameOf(nutrient) == lower(Get(nutrient, "nutrientName", <<>>))
ValueOf(nutrient) == Get(nutrient, "value", 0)
UnitOf(nutrient) == lower(Get(nutrient, "unitName", <<>>))

\* A slip: a key already present keeps its first value.
Store_first(acc, key, value) ==
    IF key \in DOMAIN acc THEN acc ELSE (key :> value) @@ acc

\* nutrients[key] = value
Store(acc, key, value) == (key :> value) @@ acc

\* The loop of main.py:99-120 from entry n on.
RECURSIVE ExtractFrom(_, _, _)
ExtractFrom(entries, acc, n) ==
    IF n > Len(entries) THEN acc
    ELSE LET key == Branch(NameOf(entries[n]), UnitOf(entries[n]))
         IN ExtractFrom(entries,
                        IF key = NoKey THEN acc ELSE Store(acc, key, ValueOf(entries[n])),
                        n + 1)

\* main.py:96-122
extract_nutrients(record) == ExtractFrom(Get(record, "foodNutrients", <<>>), EmptyDict, 1)

----------------------------------------------------------------------------
(* calculate_meal_totals, main.py:124-143 *)

ZeroTotals == [key \in Keys |-> 0]

\* A slip: = for += at main.py:141.
AddItem_assign(totals, item) ==
    LET n == Get(item, "nutrients", EmptyDict)
    IN [key \in Keys |-> IF key \in DOMAIN n THEN n[key] ELSE totals[key]]

\* main.py:138-141: one item added to the totals.
AddItem(totals, item) ==
    LET n == Get(item, "nutrients", EmptyDict)
    IN [key \in Keys |-> IF key \in DOMAIN n THEN totals[key] + n[key] ELSE totals[key]]

RECURSIVE TotalsFrom(_, _, _)
TotalsFrom(items, totals, n) ==
    IF n > Len(items) THEN totals
    ELSE TotalsFrom(items, AddItem(totals, items[n]), n + 1)

\* main.py:124-143
calculate_meal_totals(items) == TotalsFrom(items, ZeroTotals, 1)

----------------------------------------------------------------------------
(* Specification of the parser alone *)

ParseAlphabet == {FENCE, "json", "py", "[", "]", ",", WS, "7"}

RECURSIVE SeqsUpTo(_, _)
SeqsUpTo(S, n) ==
    IF n = 0 THEN {<<>>}
    ELSE LET shorter == SeqsUpTo(S, n - 1)
         IN shorter \cup {Append(s, x) : s \in shorter, x \in S}

Idle ==
    /\ parsed_foods = None /\ content = None /\ i = 0 /\ meal_info = <<>>
    /\ meal_totals = None /\ calls = <<>> /\ result = None /\ data = None
    /\ usda_data = None /\ nutrients = None /\ perm_info = <<>>
    /\ perm_totals = None

ParseInit ==
    /\ pc = "parse"
    /\ response \in {Raises} \cup {Reply(t) : t \in SeqsUpTo(ParseAlphabet, MaxContent)}
    /\ Idle

ParseCall ==
    /\ pc = "parse"
    /\ content' = IF response = Raises THEN None ELSE ExtractContent(response.content)
    /\ parsed_foods' = parse_food_amount(response)
    /\ pc' = "parsed"
    /\ UNCHANGED <<response, i, meal_info, meal_totals, calls, result, data,
                   usda_data, nutrients, perm_info, perm_totals>>

ParseSpec == ParseInit /\ [][ParseCall]_vars

----------------------------------------------------------------------------
(* Claims about parse_food_amount, checked under ParseSpec *)

Parsed == pc = "parsed"

\* The position of the first occurrence of sub in s, Len(s) + 1 when none.
FirstAt(sub, s) ==
    IF In(sub, s)
    THEN CHOOSE p \in 1..Len(s) :
             Occurs(sub, s, p) /\ \A q \in 1..(p - 1) : ~Occurs(sub, s, q)
    ELSE Len(s) + 1

\* s from position p up to the next fence, or to the end when none follows.
BlockFrom(s, p) ==
    LET rest == SubSeq(s, p, Len(s))
    IN SubSeq(rest, 1, FirstAt(<<FENCE>>, rest) - 1)

Tags == {"json", "py"}

\* The first fenced block of a text that holds a fence, language tag dropped.
FirstBlock(s) ==
    LET block == BlockFrom(s, FirstAt(<<FENCE>>, s) + 1)
    IN IF block # <<>> /\ Head(block) \in Tags THEN Tail(block) ELSE block

Undecodable(resp) ==
    \/ resp = Raises
    \/ ~ExtractContent(resp.content).ok
    \/ json_loads(ExtractContent(resp.content).text) = JSONDecodeError

\* C4: parse_food_amount never propagates an error: when the text-generation
\* call raises, the block extraction fails or the extracted text is not
\* decodable as JSON, it returns the empty list, and what it returns is
\* always a decoded value.
C4_ParseNeverRaises ==
    Parsed =>
        /\ parsed_foods # JSONDecodeError
        /\ parsed_foods # Raises
        /\ Undecodable(response) => parsed_foods = Arr(<<>>)

\* C4 witness: a truncated array was returned by the service and parsed to [].
C4_Witness ==
    /\ Parsed
    /\ response = Reply(<<"[", "7", ",">>)
    /\ parsed_foods = Arr(<<>>)

\* C5 as stated: with a fence in the response the text parsed is the content
\* of the first fenced block, language tag excluded; without one, the raw
\* text.
C5_FirstFencedBlock ==
    Parsed /\ response # Raises =>
        /\ content.ok
        /\ content.text =
               IF In(<<FENCE>>, response.content)
               THEN Strip(FirstBlock(response.content))
               ELSE response.content

\* C5 amended: with a json-tagged fence anywhere in the response the text
\* parsed is what follows the first json-tagged fence up to the next fence;
\* otherwise, with a fence, what lies between the first fence and the next,
\* any other language tag included; otherwise the raw text.
C5_JsonFenceFirst ==
    Parsed /\ response # Raises =>
        LET s == response.content
            j == FirstAt(<<FENCE, "json">>, s)
            f == FirstAt(<<FENCE>>, s)
        IN /\ content.ok
           /\ content.text =
                  IF j <= Len(s) THEN Strip(BlockFrom(s, j + 2))
                  ELSE IF f <= Len(s) THEN Strip(BlockFrom(s, f + 1))
                  ELSE s

\* C5 witness: a json-tagged block that is not the first fenced block was parsed.
C5_Witness ==
    /\ Parsed
    /\ response = Reply(<<FENCE, FENCE, "json", "7">>)
    /\ content.text = <<"7">>
    /\ parsed_foods = Num(7)

----------------------------------------------------------------------------
(* Specification of query_usda alone *)

Scores == {-1, 0, 1}

\* Candidate n of a search response, with or without a score.
Candidates(n) == {[fdcId |-> n]} \cup {[fdcId |-> n, score |-> sc] : sc \in Scores}

RECURSIVE FoodLists(_)
FoodLists(n) ==
    IF n = 0 THEN {<<>>}
    ELSE LET shorter == FoodLists(n - 1)
         IN shorter \cup {Append(l, c) : l \in {x \in shorter : Len(x) = n - 1},
                                        c \in Candidates(n)}

UsdaOutcomes ==
    {Timeout, HttpError, Body(EmptyDict)}
        \cup {Body([foods |-> l]) : l \in FoodLists(MaxFoods)}

UsdaInit ==
    /\ pc = "query"
    /\ data \in UsdaOutcomes
    /\ response = None /\ content = None /\ parsed_foods = None /\ i = 0
    /\ meal_info = <<>> /\ meal_totals = None /\ calls = <<>> /\ result = None
    /\ usda_data = None /\ nutrients = None /\ perm_info = <<>>
    /\ perm_totals = None

QueryCall ==
    /\ pc = "query"
    /\ usda_data' = query_usda(data)
    /\ pc' = "queried"
    /\ UNCHANGED <<response, content, parsed_foods, i, meal_info, meal_totals,
                   calls, result, data, nutrients, perm_info, perm_totals>>

UsdaSpec == UsdaInit /\ [][QueryCall]_vars

\* C7: with a non-empty foods list query_usda returns the candidate of
\* maximum score, a missing score counting as 0, and among several candidates
\* of maximum score the one that comes first in the list.
C7_StableMaxScore ==
    pc = "queried" /\ data.k = "body" /\ Get(data.json, "foods", <<>>) # <<>> =>
        LET foods == data.json.foods
            sc(n) == IF "score" \in DOMAIN foods[n] THEN foods[n].score ELSE 0
        IN \E m \in 1..Len(foods) :
               /\ usda_data = foods[m]
               /\ \A n \in 1..Len(foods) : sc(n) <= sc(m)
               /\ \A n \in 1..(m - 1) : sc(n) < sc(m)

\* C7 witness: two candidates tie at the maximum, one of them by its missing score, after
\* a lower one; the first of the two was returned.
C7_Witness ==
    /\ pc = "queried"
    /\ data = Body([foods |-> <<[fdcId |-> 1, score |-> -1], [fdcId |-> 2],
                                [fdcId |-> 3, score |-> 0]>>])
    /\ usda_data = [fdcId |-> 2]

----------------------------------------------------------------------------
(* Specification of extract_nutrients alone *)

NutrientNames ==
    { <<<<"Energy">>, <<"KCAL">>>>,
      <<<<"Energy">>, <<"kJ">>>>,
      <<<<"Protein">>, <<"G">>>>,
      <<<<"Total", SP, "lipid", SP, "(fat)">>, <<"G">>>>,
      <<<<"Carbohydrate", ",", SP, "by", SP, "difference">>, <<"G">>>>,
      <<<<"Fiber", ",", SP, "total", SP, "dietary">>, <<"G">>>>,
      <<<<"Sugars", ",", SP, "total", SP, "including", SP, "NLEA">>, <<"G">>>>,
      <<<<"Fatty", SP, "acids", ",", SP, "total", SP, "saturated">>, <<"G">>>>,
      <<<<"Sodium", ",", SP, "Na">>, <<"MG">>>>,
      <<<<"Vitamin", SP, "C">>, <<"MG">>>>,
      <<<<"Protein", ",", SP, "sodium", "-", "bound">>, <<"G">>>>,
      <<<<"Energy", SP, "from", SP, "protein">>, <<"KCAL">>>> }

Values == {1, 2}

NutrientEntries ==
    {EmptyDict} \cup
    {[nutrientName |-> nu[1], value |-> v, unitName |-> nu[2]] :
         nu \in NutrientNames, v \in Values}

UsdaRecords ==
    {[fdcId |-> 1]} \cup
    {[fdcId |-> 1, foodNutrients |-> l] : l \in SeqsUpTo(NutrientEntries, MaxEntries)}

ExtractInit ==
    /\ pc = "extract"
    /\ usda_data \in UsdaRecords
    /\ response = None /\ content = None /\ parsed_foods = None /\ i = 0
    /\ meal_info = <<>> /\ meal_totals = None /\ calls = <<>> /\ result = None
    /\ data = None /\ nutrients = None /\ perm_info = <<>> /\ perm_totals = None

ExtractCall ==
    /\ pc = "extract"
    /\ nutrients' = extract_nutrients(usda_data)
    /\ pc' = "extracted"
    /\ UNCHANGED <<response, content, parsed_foods, i, meal_info, meal_totals,
                   calls, result, data, usda_data, perm_info, perm_totals>>

ExtractSpec == ExtractInit /\ [][ExtractCall]_vars

Extracted == pc = "extracted"

EntriesOf(record) == Get(record, "foodNutrients", <<>>)

\* The rules an entry satisfies, as name/unit conditions.
Satisfied(e) == {key \in Keys : Matches(key, NameOf(e), UnitOf(e))}

\* The order in which main.py:105-119 tests the rules.
RuleOrder == <<"calories", "protein", "fat", "carbohydrates", "fiber", "sugars",
               "saturated_fat", "sodium">>

\* The rules of an entry that comes first in the order of the tests.
FirstSatisfied(e) ==
    LET sat == Satisfied(e)
    IN {RuleOrder[n] : n \in {m \in 1..Len(RuleOrder) :
                                 /\ RuleOrder[m] \in sat
                                 /\ \A l \in 1..(m - 1) : RuleOrder[l] \notin sat}}

Max(S) == CHOOSE x \in S : \A y \in S : y <= x

\* classes[n] being the keys entry n counts for: the output is exactly, for
\* each key some entry counts for, the value of the last entry that does.
LastHitWins(entries, out, classes) ==
    LET hits == [key \in Keys |-> {n \in 1..Len(entries) : key \in classes[n]}]
    IN /\ DOMAIN out = {key \in Keys : hits[key] # {}}
       /\ \A key \in DOMAIN out : out[key] = ValueOf(entries[Max(hits[key])])

\* C6 as stated: the keys of the output are among the eight, and each key
\* holds the value of the last entry of the list that matches the rule of
\* that key.
C6_LastMatchingEntry ==
    Extracted =>
        LET entries == EntriesOf(usda_data)
        IN LastHitWins(entries, nutrients,
                       [n \in 1..Len(entries) |-> Satisfied(entries[n])])

\* C6 amended: the keys of the output are among the eight, entries that
\* satisfy no rule are dropped, and each key holds the value of the last
\* entry of the list whose first satisfied rule, in the order of the tests,
\* is the rule of that key (never a sum).
C6_LastStoredEntry ==
    Extracted =>
        /\ DOMAIN nutrients \subseteq Keys
        /\ LET entries == EntriesOf(usda_data)
           IN LastHitWins(entries, nutrients,
                          [n \in 1..Len(entries) |-> FirstSatisfied(entries[n])])

\* C6 witness: two entries of the same key with different values, the later one kept, and
\* an entry no rule matches dropped.
C6_Witness ==
    /\ Extracted
    /\ Len(EntriesOf(usda_data)) = 2
    /\ Satisfied(EntriesOf(usda_data)[1]) = {"protein"}
    /\ Satisfied(EntriesOf(usda_data)[2]) = {"protein"}
    /\ ValueOf(EntriesOf(usda_data)[1]) = 1
    /\ nutrients = [protein |-> 2]

LastEntry(record) == EntriesOf(record)[Len(EntriesOf(record))]

\* C9 as stated: the rules are disjoint, and every rule the entry satisfies
\* has its key set to the value of the entry, whatever the order of the tests.
C9_EveryMatchingRuleSets ==
    Extracted /\ EntriesOf(usda_data) # <<>> =>
        LET e == LastEntry(usda_data) IN
        /\ Cardinality(Satisfied(e)) <= 1
        /\ \A key \in Satisfied(e) :
               key \in DOMAIN nutrients /\ nutrients[key] = ValueOf(e)

\* C9 amended: an entry sets one key at most, the key of the first rule it
\* satisfies in the order calories, protein, fat, carbohydrates, fiber,
\* sugars, saturated_fat, sodium; the key of any later rule it satisfies is
\* left as the entries before it set it. An entry that satisfies one rule
\* sets the key of that rule.
C9_FirstMatchingRuleSets ==
    Extracted /\ EntriesOf(usda_data) # <<>> =>
        LET e == LastEntry(usda_data)
            n == Len(EntriesOf(usda_data))
            before == extract_nutrients([foodNutrients |-> SubSeq(EntriesOf(usda_data), 1, n - 1)])
        IN /\ \A key \in FirstSatisfied(e) :
                  key \in DOMAIN nutrients /\ nutrients[key] = ValueOf(e)
           /\ \A key \in Keys \ FirstSatisfied(e) :
                  /\ key \in DOMAIN nutrients <=> key \in DOMAIN before
                  /\ key \in DOMAIN before => nutrients[key] = before[key]

\* C9 witness: an entry that satisfies the protein and the sodium rule came after a
\* sodium entry: protein was set, sodium kept the value of the earlier entry.
C9_Witness ==
    /\ Extracted
    /\ Len(EntriesOf(usda_data)) = 2
    /\ Satisfied(EntriesOf(usda_data)[1]) = {"sodium"}
    /\ Satisfied(EntriesOf(usda_data)[2]) = {"protein", "sodium"}
    /\ ValueOf(EntriesOf(usda_data)[1]) = 1
    /\ nutrients = [protein |-> 2, sodium |-> 1]

----------------------------------------------------------------------------
(* Specification of calculate_meal_totals alone *)

AllKeys(v) == [key \in Keys |-> v]

\* Meal items: nutrient dicts over some of the eight keys, over all of them,
\* over a key outside them, empty, and an item with no nutrients key at all.
MealItems ==
    { [food |-> "egg", amount |-> "2 large", nutrients |-> [calories |-> 1, protein |-> 2]],
      [food |-> "rice", amount |-> "", nutrients |-> [calories |-> 2, sodium |-> 1, iron |-> 3]],
      [food |-> "oil", amount |-> "1 tbsp", nutrients |-> AllKeys(3)],
      [food |-> "water", amount |-> "1 cup", nutrients |-> EmptyDict],
      [food |-> "salt"] }

Permuted(items, p) == [n \in 1..Len(items) |-> items[p[n]]]

TotalsInit ==
    /\ pc = "totals"
    /\ meal_info \in SeqsUpTo(MealItems, MaxMeal)
    /\ \E p \in Permutations(1..Len(meal_info)) : perm_info = Permuted(meal_info, p)
    /\ response = None /\ content = None /\ parsed_foods = None /\ i = 0
    /\ meal_totals = None /\ calls = <<>> /\ result = None /\ data = None
    /\ usda_data = None /\ nutrients = None /\ perm_totals = None

TotalsCall ==
    /\ pc = "totals"
    /\ meal_totals' = calculate_meal_totals(meal_info)
    /\ perm_totals' = calculate_meal_totals(perm_info)
    /\ pc' = "totalled"
    /\ UNCHANGED <<response, content, parsed_foods, i, meal_info, calls, result,
                   data, usda_data, nutrients, perm_info>>

TotalsSpec == TotalsInit /\ [][TotalsCall]_vars

\* C8: calculate_meal_totals gives the same totals, for all eight keys, on a
\* list of meal items with integer values and on every permutation of it.
C8_TotalsCommute ==
    pc = "totalled" =>
        /\ DOMAIN meal_totals = Keys
        /\ \A key \in Keys : meal_totals[key] = perm_totals[key]

\* C8 witness: three different items were totalled in two different orders.
C8_Witness ==
    /\ pc = "totalled"
    /\ Len(meal_info) = 3
    /\ perm_info # meal_info
    /\ perm_info[1] = meal_info[3]
    /\ meal_totals.calories = 6
    /\ meal_totals.sodium = 4

----------------------------------------------------------------------------
(* generate_analysis, main.py:145-185 *)

Msg(text) == [k |-> "str", text |-> text]

Narrative == Msg("**Score: 7/10** ...")
Fallback == Msg("Unable to generate nutrition analysis at this time.")
NoFoods == Msg("Could not identify any foods in your input.")
NoData == Msg("No nutritional data found for the foods mentioned.")

AttributeError == [k |-> "AttributeError"]
TypeError == [k |-> "TypeError"]

\* main.py:180-185: the reply of the service, or the fallback when it raises.
generate_analysis(totals, reply) == IF reply = Raises THEN Fallback ELSE reply

----------------------------------------------------------------------------
(* nutrition_agent, main.py:187-229 *)

ParseCallRecord == [fn |-> "llm.invoke", for |-> "parse_food_amount"]
AnalysisCallRecord == [fn |-> "llm.invoke", for |-> "generate_analysis"]
\* A lookup in the log carries what query_usda returned for it.
LookupCallRecord(food_name, returned) ==
    [fn |-> "requests.get", for |-> food_name, returned |-> returned]

\* The array elements the text-generation service may send: objects with
\* both keys, without amount, without food, with an empty food, and a number.
ElementLiterals == {"{egg}", "{rice}", "{noname}", "{blank}", "7"}

\* The JSON text of an array of literals.
RECURSIVE Joined(_)
Joined(lits) ==
    IF lits = <<>> THEN <<>>
    ELSE IF Len(lits) = 1 THEN lits
    ELSE <<Head(lits), ",">> \o Joined(Tail(lits))

ArrayText(lits) == <<"[">> \o Joined(lits) \o <<"]">>

\* What llm.invoke may give the parser: an exception, a bare literal, and
\* an array sent raw, sent in a json fence, or cut short.
AgentResponses ==
    {Raises, Reply(<<"7">>), Reply(<<"0">>), Reply(<<"{rice}">>)}
        \cup {Reply(ArrayText(l)) : l \in SeqsUpTo(ElementLiterals, MaxItems)}
        \cup {Reply(<<FENCE, "json", WS>> \o ArrayText(l) \o <<WS, FENCE>>) :
                  l \in SeqsUpTo(ElementLiterals, MaxItems)}
        \cup {Reply(<<"[">> \o Joined(l)) : l \in SeqsUpTo(ElementLiterals, MaxItems)}

Entry(name, unit, v) == [nutrientName |-> name, value |-> v, unitName |-> unit]

eggRecord ==
    [fdcId |-> 1, score |-> 1,
     foodNutrients |-> <<Entry(<<"Energy">>, <<"KCAL">>, 2), Entry(<<"Energy">>, <<"kJ">>, 9),
                         Entry(<<"Protein">>, <<"G">>, 1)>>]
saltRecord ==
    [fdcId |-> 2,
     foodNutrients |-> <<Entry(<<"Sodium", ",", SP, "Na">>, <<"MG">>, 3),
                         Entry(<<"Vitamin", SP, "C">>, <<"MG">>, 1)>>]
bareRecord == [fdcId |-> 3, score |-> -1]

\* What a lookup may come to: the failures of main.py:89-94, a body with no
\* foods key, an empty foods list, and lists of candidates.
AgentOutcomes ==
    {Timeout, HttpError, Body(EmptyDict), Body([foods |-> <<>>]),
     Body([foods |-> <<saltRecord, eggRecord>>]), Body([foods |-> <<saltRecord>>]),
     Body([foods |-> <<bareRecord>>])}

AnalysisReplies == {Raises, Narrative}

Init ==
    /\ pc = "start"
    /\ response \in AgentResponses
    /\ Idle

\* main.py:192-196: the parse, and the return on an empty result. A result
\* that is no list cannot be iterated (a number) or iterates into values that
\* have no get (the keys of an object).
Parse ==
    /\ pc = "start"
    /\ calls' = Append(calls, ParseCallRecord)
    /\ content' = IF response = Raises THEN None ELSE ExtractContent(response.content)
    /\ parsed_foods' = parse_food_amount(response)
    /\ IF Falsy(parsed_foods') THEN pc' = "done" /\ result' = NoFoods
       ELSE IF parsed_foods'.k = "num" THEN pc' = "raised" /\ result' = TypeError
       ELSE IF parsed_foods'.k = "obj" THEN pc' = "raised" /\ result' = AttributeError
       ELSE pc' = "loop" /\ result' = result
    /\ i' = 1
    /\ UNCHANGED <<response, meal_info, meal_totals, data, usda_data, nutrients,
                   perm_info, perm_totals>>

InLoop == pc = "loop" /\ i <= Len(parsed_foods.items)
item == parsed_foods.items[i]
food_name == Get(item.fields, "food", "")
amount == Get(item.fields, "amount", "")

\* main.py:201: item.get on an element that is no dict.
NotADict ==
    /\ InLoop
    /\ item.k # "obj"
    /\ pc' = "raised"
    /\ result' = AttributeError
    /\ UNCHANGED <<response, content, parsed_foods, i, meal_info, meal_totals,
                   calls, data, usda_data, nutrients, perm_info, perm_totals>>

\* main.py:204-205
SkipUnnamed ==
    /\ InLoop
    /\ item.k = "obj"
    /\ food_name = ""
    /\ i' = i + 1
    /\ UNCHANGED <<pc, response, content, parsed_foods, meal_info, meal_totals,
                   calls, result, data, usda_data, nutrients, perm_info, perm_totals>>

\* main.py:207-217: one lookup; no match skips the item, a match adds it.
Lookup ==
    /\ InLoop
    /\ item.k = "obj"
    /\ food_name # ""
    /\ \E outcome \in AgentOutcomes :
           /\ data' = outcome
           /\ usda_data' = query_usda(outcome)
    /\ calls' = Append(calls, LookupCallRecord(food_name, usda_data'))
    /\ IF usda_data' = EmptyDict
       THEN UNCHANGED <<meal_info, nutrients>>
       ELSE /\ nutrients' = extract_nutrients(usda_data')
            /\ meal_info' = Append(meal_info, [food |-> food_name, amount |-> amount,
                                              nutrients |-> nutrients'])
    /\ i' = i + 1
    /\ UNCHANGED <<pc, response, content, parsed_foods, meal_totals, result,
                   perm_info, perm_totals>>

LoopDone == pc = "loop" /\ i > Len(parsed_foods.items)

\* main.py:221-222
ReturnNoData ==
    /\ LoopDone
    /\ meal_info = <<>>
    /\ pc' = "done"
    /\ result' = NoData
    /\ UNCHANGED <<response, content, parsed_foods, i, meal_info, meal_totals,
                   calls, data, usda_data, nutrients, perm_info, perm_totals>>

\* main.py:225-229
Analyse ==
    /\ LoopDone
    /\ meal_info # <<>>
    /\ meal_totals' = calculate_meal_totals(meal_info)
    /\ calls' = Append(calls, AnalysisCallRecord)
    /\ \E reply \in AnalysisReplies : result' = generate_analysis(meal_totals', reply)
    /\ pc' = "done"
    /\ UNCHANGED <<response, content, parsed_foods, i, meal_info, data, usda_data,
                   nutrients, perm_info, perm_totals>>

Next == Parse \/ NotADict \/ SkipUnnamed \/ Lookup \/ ReturnNoData \/ Analyse

Spec == Init /\ [][Next]_vars

----------------------------------------------------------------------------
(* Claims about nutrition_agent, checked under Spec *)

Returned == pc = "done"
Raised == pc = "raised"
Finished == Returned \/ Raised

Items == IF parsed_foods.k = "arr" THEN parsed_foods.items ELSE <<>>

IsNamed(it) == it.k = "obj" /\ Get(it.fields, "food", "") # ""

\* The food names of the parsed items that have one, in the order of the list.
NamedFoods ==
    LET named == SelectSeq(Items, IsNamed)
    IN [n \in 1..Len(named) |-> named[n].fields.food]

LookupCalls == SelectSeq(calls, LAMBDA c : c.fn = "requests.get")
Looked == [n \in 1..Len(LookupCalls) |-> LookupCalls[n].for]
LlmCalls == SelectSeq(calls, LAMBDA c : c.fn = "llm.invoke")
Analysed == \E n \in 1..Len(calls) : calls[n] = AnalysisCallRecord

\* The lookups that returned a record, as the meal items they stand for.
Resolved ==
    LET hits == SelectSeq(LookupCalls, LAMBDA c : c.returned # EmptyDict)
    IN [n \in 1..Len(hits) |-> [nutrients |-> extract_nutrients(hits[n].returned)]]

SomeLookupFailed == \E n \in 1..Len(LookupCalls) : LookupCalls[n].returned = EmptyDict

Outcomes == {NoFoods, NoData, Narrative, Fallback}

\* C1: the agent stops at the first empty result: on an empty parse result
\* it returns the no-foods message with no lookup and no analysis call; on a
\* non-empty parse result of which no item resolved it returns the no-data
\* message with no analysis call.
C1_ShortCircuit ==
    Finished =>
        /\ Falsy(parsed_foods) => result = NoFoods /\ calls = <<ParseCallRecord>>
        /\ ~Falsy(parsed_foods) /\ meal_info = <<>> => result = NoData /\ ~Analysed

\* C2: an item whose lookup finds no match is skipped and the run goes on:
\* every other named item is looked up, and the totals handed to
\* generate_analysis are the aggregate over the items that resolved.
C2_SkipDoesNotAbort ==
    Finished /\ SomeLookupFailed =>
        /\ Looked = NamedFoods
        /\ Analysed => meal_totals = calculate_meal_totals(Resolved)

\* C3: on every parser output that is a JSON array, whatever the shape of its
\* elements, the agent raises nothing and ends in one of its three outcomes.
C3_CompletesOnAnyArray ==
    parsed_foods.k = "arr" =>
        /\ ~Raised
        /\ Returned => result \in Outcomes

\* C10: in every run the external calls are, in this order, one parse call,
\* one lookup for each named item in list order, then at most one analysis
\* call; never more than two text-generation calls.
C10_CallSequence ==
    Finished =>
        /\ Len(LlmCalls) <= 2
        /\ \/ calls = <<ParseCallRecord>> \o LookupCalls /\ Looked = NamedFoods
           \/ calls = <<ParseCallRecord>> \o LookupCalls \o <<AnalysisCallRecord>>
                  /\ Looked = NamedFoods

(* What holds of the runs that return, and of the order of the calls in all *)
(* runs: the four claims fail on the raising runs alone.                   *)

ReturningRunsShortCircuit ==
    Returned =>
        /\ Falsy(parsed_foods) => result = NoFoods /\ calls = <<ParseCallRecord>>
        /\ ~Falsy(parsed_foods) /\ meal_info = <<>> => result = NoData /\ ~Analysed
        /\ result \in Outcomes
        /\ Looked = NamedFoods
        /\ Analysed => meal_totals = calculate_meal_totals(Resolved)
        /\ Analysed <=> meal_info # <<>>

CallsInOrder ==
    /\ pc # "start" => calls # <<>> /\ Head(calls) = ParseCallRecord
    /\ Len(LlmCalls) <= 2
    /\ Looked = SubSeq(NamedFoods, 1, Len(Looked))
    /\ Analysed => calls[Len(calls)] = AnalysisCallRecord /\ Looked = NamedFoods

\* Only an element that is no object, or a result that is no array, raises.
RaisesOnlyOnNonObjects ==
    Raised =>
        \/ parsed_foods.k # "arr"
        \/ \E n \in 1..Len(Items) : Items[n].k # "obj"

====
